---- MODULE Spec2Model ----
(***************************************************************************)
(* EduSphere: chunked video delivery and playback.                         *)
(*                                                                         *)
(* Client: the stream controller of CoursePlayerPage.tsx (React refs and   *)
(* state, the MediaSource / SourceBuffer objects it drives, the segment    *)
(* and metadata fetches in flight).  Presentation state (loading spinner,   *)
(* play / pause, volume) is not part of the model.                         *)
(* Server: the access gate and the three streaming routes of               *)
(* videoController.js, and the static /data mount of server.js.            *)
(*                                                                         *)
(* Byte offsets are counted in units of 1 MiB, so that STREAM_CHUNK_SIZE   *)
(* (2 * 1024 * 1024 bytes) is 2 units.                                     *)
(***************************************************************************)
EXTENDS Integers, Sequences, FiniteSets, Bags, TLC

\* ---------------------------------------------------------------- bounds
MaxSize == 3        \* largest asset size (units)
MaxTime == 2        \* media duration (seconds) of an asset whose duration is known
MaxSessions == 2    \* video selections + retries on one page
MaxSeeks == 2       \* seeking events on one page
MaxFile == 7        \* size of the largest file on the server (units)
MaxLen == 3         \* longest duration field of an upload form (characters)

\* ------------------------------------------------------- program constants
STREAM_CHUNK_SIZE == 2
DEFAULT_CHUNK_SIZE == 5

Null == -1
NoVideo == [size |-> -1, duration |-> 0, supported |-> FALSE]

\* The course's videos, each identified by what the server reports about it:
\* assets of every size with a known duration and a supported mime type, an
\* empty asset, an asset whose duration probe failed (0), and an asset whose
\* mime type the incremental buffer API does not support.
Videos ==
    {[size |-> s, duration |-> MaxTime, supported |-> TRUE] : s \in 0..MaxSize}
    \cup {[size |-> 1, duration |-> 0, supported |-> TRUE],
          [size |-> MaxSize - 1, duration |-> MaxTime, supported |-> FALSE]}

Min(a, b) == IF a < b THEN a ELSE b
Max(a, b) == IF a > b THEN a ELSE b

VARIABLES
    \* React state
    mounted,              \* the player page is mounted
    currentVideoId,       \* useState currentVideoId (NoVideo = null)
    streamReloadKey,      \* useState streamReloadKey
    useMediaSource,       \* useState useMediaSource
    renderPending,        \* setUseMediaSource(false) was called, effects not yet re-run
    videoError,           \* useState videoError: "none" (null), "fetch" (Failed to fetch video fragment) or "load" (Failed to load video)
    duration,             \* useState duration
    \* refs
    mediaSourceRef,       \* "null", or the readyState of the MediaSource: "closed" | "open" | "ended"
    sourceBufferRef,      \* TRUE iff sourceBufferRef.current is a SourceBuffer
    fileSizeRef,
    chunkPointerRef,
    isFetchingChunkRef,
    pendingSeekByteRef,
    isClearingBufferRef,
    hasStartedPlaybackRef,
    \* browser objects
    hasMSE,               \* typeof MediaSource !== 'undefined'
    sbUpdating,           \* SourceBuffer.updating: "no" | "append" | "remove"
    updateendQueued,      \* updateend events queued for the registered listener
    sourceOpenQueued,     \* a sourceopen event queued by a re-open (ended -> open)
    videoSrc,             \* src of the video element: "none" | "mse" | "direct"
    elemHasMeta,          \* the video element has media metadata (can fire seeking)
    \* network
    metaPending,          \* initializeStream awaits fetchVideoMetadata (not cancelled)
    inflight,             \* segment fetches in flight: a bag of [start, end, late], late = issued by a session since torn down
    \* observation (history) variables
    session,              \* number of the PlaybackSession (selection or retry)
    seeks,                \* seeking events so far
    metaReqs,             \* metadata requests issued in this session
    fullReqs,             \* full-resource requests issued in this session
    reqLog,               \* segment requests <<[start, end], ...>> of this session up to its first disturbance
    firstReq,             \* start of the first segment request of this session, or Null
    lastAppend,           \* the last chunk appended to the current buffer was fetched by: "none" | "own" session | an "earlier" one
    seekTarget,           \* target byte of the last seek while no segment request was issued since, else Null
    disturbed             \* this session saw a seek, a failure or a response of an earlier session

clientVars == <<mounted, currentVideoId, streamReloadKey, useMediaSource, renderPending,
                videoError, duration, mediaSourceRef, sourceBufferRef,
                fileSizeRef, chunkPointerRef, isFetchingChunkRef, pendingSeekByteRef,
                isClearingBufferRef, hasStartedPlaybackRef, hasMSE, sbUpdating,
                updateendQueued, sourceOpenQueued, videoSrc, elemHasMeta, metaPending,
                inflight, session, seeks, metaReqs, fullReqs, reqLog, firstReq,
                lastAppend, seekTarget, disturbed>>




\* Server: the purchases collection and the response to the last request
VARIABLES
    purchases,      \* set of [user, course, status]
    resp,           \* the response being sent, NoResp when there is none
    lastForbidden,  \* observation: <<requester, course>> of the last request answered 403, NoOne before
    upload          \* the answer of addVideo being sent, NoUpload when there is none

serverVars == <<purchases, resp, lastForbidden, upload>>

\* The useMediaSource value captured by the callbacks of the last effect run:
\* the state only ever changes from TRUE to FALSE, and the callbacks in use
\* are those of the render before the change until the effects re-run.
closureUseMediaSource == useMediaSource \/ renderPending

\* The fetches in flight once the session that issued them is torn down
Superseded(bag) ==
    LET lateOf(r) == [r EXCEPT !.late = TRUE]
        recs == {lateOf(r) : r \in BagToSet(bag)}
    IN  [r \in recs |-> CopiesIn(r, bag) + CopiesIn([r EXCEPT !.late = FALSE], bag)]

\* getSegmentUrl with the end taken as exclusive
getSegmentUrl_EndExclusive(videoId, start, end) ==
    [vid |-> videoId, start |-> Max(0, start), end |-> Max(start, end + 1)]

\* videoApi.getSegmentUrl: the start and end query parameters of the URL
getSegmentUrl(videoId, start, end) ==
    [vid |-> videoId, start |-> Max(0, start), end |-> Max(start, end)]

\* cleanupMediaSource without the reset of the byte cursor
cleanupMediaSource_KeepsCursor ==
    /\ mediaSourceRef' = "null"
    /\ sourceBufferRef' = FALSE
    /\ sbUpdating' = "no"
    /\ updateendQueued' = 0
    /\ sourceOpenQueued' = FALSE
    /\ elemHasMeta' = FALSE
    /\ fileSizeRef' = 0
    /\ chunkPointerRef' = chunkPointerRef
    /\ pendingSeekByteRef' = Null
    /\ isClearingBufferRef' = FALSE
    /\ isFetchingChunkRef' = FALSE
    /\ hasStartedPlaybackRef' = FALSE
    /\ lastAppend' = "none"

\* cleanupMediaSource: listener removed, buffer aborted and dropped, media
\* source dropped, object URL revoked, src removed, refs reset
cleanupMediaSource ==
    /\ mediaSourceRef' = "null"
    /\ sourceBufferRef' = FALSE
    /\ sbUpdating' = "no"
    /\ updateendQueued' = 0
    /\ sourceOpenQueued' = FALSE
    /\ elemHasMeta' = FALSE
    /\ fileSizeRef' = 0
    /\ chunkPointerRef' = 0
    /\ pendingSeekByteRef' = Null
    /\ isClearingBufferRef' = FALSE
    /\ isFetchingChunkRef' = FALSE
    /\ hasStartedPlaybackRef' = FALSE
    /\ lastAppend' = "none"

\* fallbackToDirectStream (not cancelled): setUseMediaSource(false), src = stream URL, load()
fallbackToDirectStream(full) ==
    /\ useMediaSource' = FALSE
    /\ renderPending' = useMediaSource
    /\ videoSrc' = "direct"
    /\ fullReqs' = full + 1

\* initializeStream testing only the browser's support, not the page's
\* useMediaSource state
initializeStream_RetestsSupport(meta, full) ==
    /\ cleanupMediaSource
    /\ videoError' = "none"
    /\ IF ~hasMSE
       THEN /\ fallbackToDirectStream(full)
            /\ metaPending' = FALSE
            /\ metaReqs' = meta
       ELSE /\ metaPending' = TRUE
            /\ metaReqs' = meta + 1
            /\ videoSrc' = "none"
            /\ fullReqs' = full
            /\ UNCHANGED <<useMediaSource, renderPending>>

\* initializeStream up to its first await, run by the effect for a selected video.
\* meta, full: the session's request counts so far.
initializeStream(meta, full) ==
    /\ cleanupMediaSource
    /\ videoError' = "none"
    /\ IF ~(useMediaSource /\ hasMSE)
       THEN /\ fallbackToDirectStream(full)
            /\ metaPending' = FALSE
            /\ metaReqs' = meta
       ELSE /\ metaPending' = TRUE
            /\ metaReqs' = meta + 1
            /\ videoSrc' = "none"
            /\ fullReqs' = full
            /\ UNCHANGED <<useMediaSource, renderPending>>

\* What a call of appendNextChunk does, given the refs at the moment of the call
appendNextChunkOutcome(cp, sb, ms, upd, fetching) ==
    IF ~closureUseMediaSource THEN "return"
    ELSE IF currentVideoId = NoVideo \/ ~sb \/ ms = "null" THEN "return"
    ELSE IF fetching \/ upd # "no" THEN "return"
    ELSE IF fileSizeRef = 0 THEN "return"
    ELSE IF cp >= fileSizeRef THEN "endOfStream"
    ELSE "fetch"

\* appendNextChunk up to its await: either returns, or signals end of stream,
\* or sets the fetching flag and issues the segment request
appendNextChunk(cp, sb, ms, upd, fetching) ==
    LET o == appendNextChunkOutcome(cp, sb, ms, upd, fetching)
        start == cp
        end == Min(start + STREAM_CHUNK_SIZE - 1, fileSizeRef - 1)
        url == getSegmentUrl(currentVideoId, start, end)
    IN  /\ isFetchingChunkRef' = IF o = "fetch" THEN TRUE ELSE fetching
        /\ mediaSourceRef' = IF o = "endOfStream" /\ ms = "open" THEN "ended" ELSE ms
        /\ inflight' = IF o = "fetch"
                       THEN inflight (+) SetToBag({[start |-> url.start, end |-> url.end,
                                                    late |-> FALSE]})
                       ELSE inflight
        /\ reqLog' = IF o = "fetch" /\ ~disturbed
                     THEN Append(reqLog, [start |-> url.start, end |-> url.end])
                     ELSE reqLog
        /\ firstReq' = IF o = "fetch" /\ firstReq = Null THEN url.start ELSE firstReq
        /\ seekTarget' = IF o = "fetch" THEN Null ELSE seekTarget

ClientInit ==
    /\ mounted = TRUE
    /\ currentVideoId = NoVideo
    /\ streamReloadKey = 0
    /\ hasMSE \in BOOLEAN
    /\ useMediaSource = hasMSE
    /\ renderPending = FALSE
    /\ videoError = "none"
    /\ duration = 0
    /\ mediaSourceRef = "null"
    /\ sourceBufferRef = FALSE
    /\ fileSizeRef = 0
    /\ chunkPointerRef = 0
    /\ isFetchingChunkRef = FALSE
    /\ pendingSeekByteRef = Null
    /\ isClearingBufferRef = FALSE
    /\ hasStartedPlaybackRef = FALSE
    /\ sbUpdating = "no"
    /\ updateendQueued = 0
    /\ sourceOpenQueued = FALSE
    /\ videoSrc = "none"
    /\ elemHasMeta = FALSE
    /\ metaPending = FALSE
    /\ inflight = EmptyBag
    /\ session = 0
    /\ seeks = 0
    /\ metaReqs = 0
    /\ fullReqs = 0
    /\ reqLog = <<>>
    /\ firstReq = Null
    /\ lastAppend = "none"
    /\ seekTarget = Null
    /\ disturbed = FALSE

\* A video is selected (first selection, sidebar, next / previous, auto-advance):
\* setCurrentVideoId, then the reset effect and the stream effect
\* (cleanup of the previous run, initializeStream of the new one).
ChangeVideo(v) ==
    /\ UNCHANGED serverVars
    /\ mounted
    /\ v # currentVideoId
    /\ session < MaxSessions
    /\ currentVideoId' = v
    /\ duration' = 0
    /\ initializeStream(0, 0)
    /\ session' = session + 1
    /\ reqLog' = <<>>
    /\ firstReq' = Null
    /\ seekTarget' = Null
    /\ disturbed' = (inflight # EmptyBag)
    /\ inflight' = Superseded(inflight)
    /\ UNCHANGED <<mounted, streamReloadKey, hasMSE, seeks>>

\* The Retry button of the error panel: cleanupMediaSource, streamReloadKey + 1,
\* then the reset effect and the stream effect as for a video change.
Retry ==
    /\ UNCHANGED serverVars
    /\ mounted
    /\ videoError # "none"
    /\ session < MaxSessions
    /\ streamReloadKey' = streamReloadKey + 1
    /\ duration' = 0
    /\ initializeStream(0, 0)
    /\ session' = session + 1
    /\ reqLog' = <<>>
    /\ firstReq' = Null
    /\ seekTarget' = Null
    /\ disturbed' = (inflight # EmptyBag)
    /\ inflight' = Superseded(inflight)
    /\ UNCHANGED <<mounted, currentVideoId, hasMSE, seeks>>

\* The stream effect re-runs because useMediaSource changed (it is a dependency
\* of appendNextChunk, hence of the effect): cleanup, then initializeStream.
EffectRerun ==
    /\ UNCHANGED serverVars
    /\ mounted
    /\ renderPending
    /\ initializeStream(metaReqs, fullReqs)
    /\ UNCHANGED <<mounted, currentVideoId, streamReloadKey, duration, hasMSE, inflight,
                   session, seeks, reqLog, firstReq, seekTarget, disturbed>>

\* The page unmounts: the stream effect's cleanup
Unmount ==
    /\ UNCHANGED serverVars
    /\ mounted
    /\ currentVideoId # NoVideo
    /\ mounted' = FALSE
    /\ cleanupMediaSource
    /\ videoSrc' = "none"
    /\ metaPending' = FALSE
    /\ renderPending' = FALSE
    /\ inflight' = Superseded(inflight)
    /\ UNCHANGED <<currentVideoId, streamReloadKey, useMediaSource, videoError,
                   duration, hasMSE, session, seeks,
                   metaReqs, fullReqs, reqLog, firstReq, seekTarget, disturbed>>

\* fetchVideoMetadata resolves: file size and duration are stored; an
\* unsupported mime type falls back, otherwise the MediaSource is created and
\* attached to the video element.
MetadataSuccess ==
    /\ UNCHANGED serverVars
    /\ metaPending
    /\ metaPending' = FALSE
    /\ fileSizeRef' = currentVideoId.size
    /\ duration' = currentVideoId.duration
    /\ IF ~currentVideoId.supported
       THEN /\ fallbackToDirectStream(fullReqs)
            /\ UNCHANGED mediaSourceRef
       ELSE /\ mediaSourceRef' = "closed"
            /\ videoSrc' = "mse"
            /\ UNCHANGED <<useMediaSource, renderPending, fullReqs>>
    /\ UNCHANGED <<mounted, currentVideoId, streamReloadKey, videoError, sourceBufferRef, chunkPointerRef, isFetchingChunkRef,
                   pendingSeekByteRef, isClearingBufferRef, hasStartedPlaybackRef, hasMSE,
                   sbUpdating, updateendQueued, sourceOpenQueued, elemHasMeta, inflight,
                   session, seeks, metaReqs, reqLog, firstReq, lastAppend, seekTarget, disturbed>>

\* fetchVideoMetadata rejects (network error, or a response without metadata)
MetadataFailure ==
    /\ UNCHANGED serverVars
    /\ metaPending
    /\ metaPending' = FALSE
    /\ fallbackToDirectStream(fullReqs)
    /\ UNCHANGED <<mounted, currentVideoId, streamReloadKey, videoError, duration, mediaSourceRef, sourceBufferRef, fileSizeRef, chunkPointerRef,
                   isFetchingChunkRef, pendingSeekByteRef, isClearingBufferRef,
                   hasStartedPlaybackRef, hasMSE, sbUpdating, updateendQueued,
                   sourceOpenQueued, elemHasMeta, inflight, session, seeks, metaReqs,
                   reqLog, firstReq, lastAppend, seekTarget, disturbed>>

\* handleSourceOpen. created: addSourceBuffer returned a buffer (it may throw).
\* A buffer of the same media source that is still updating when it is
\* replaced fires its updateend later, on the listener it still carries.
handleSourceOpen(created) ==
    IF created
    THEN /\ sourceBufferRef' = TRUE
         /\ sbUpdating' = "no"
         /\ updateendQueued' = updateendQueued + (IF sbUpdating # "no" THEN 1 ELSE 0)
         /\ chunkPointerRef' = 0
         /\ pendingSeekByteRef' = Null
         /\ appendNextChunk(0, TRUE, "open", "no", isFetchingChunkRef)
         /\ UNCHANGED <<useMediaSource, renderPending, videoSrc, fullReqs, elemHasMeta,
                        fileSizeRef, isClearingBufferRef, hasStartedPlaybackRef, lastAppend>>
    ELSE /\ cleanupMediaSource
         /\ fallbackToDirectStream(fullReqs)
         /\ UNCHANGED <<inflight, reqLog, firstReq, seekTarget>>

\* The sourceopen event: the media source attached to the video element opens,
\* or a media source that had ended was re-opened by an append.
SourceOpen ==
    /\ UNCHANGED serverVars
    /\ \/ mediaSourceRef = "closed"
       \/ sourceOpenQueued /\ mediaSourceRef = "open"
    /\ sourceOpenQueued' = FALSE
    /\ \E created \in BOOLEAN : handleSourceOpen(created)
    /\ UNCHANGED <<mounted, currentVideoId, streamReloadKey, videoError, duration, hasMSE, metaPending, session, seeks, metaReqs, disturbed>>

\* The continuation of appendNextChunk after fetchSegment resolved for the
\* fetch f in flight.  activeVideoId and currentVideoId are the same constant
\* of the callback's closure, so the identity test never returns; the only
\* test that can discard the response is sourceBufferRef.current being null.
\* appendBuffer throws while the buffer is updating (caught: error shown) and
\* re-opens a media source that had ended.
FetchSuccess(f) ==
    /\ UNCHANGED serverVars
    /\ inflight' = inflight (-) SetToBag({f})
    /\ isFetchingChunkRef' = FALSE
    /\ disturbed' = (disturbed \/ f.late)
    /\ IF ~sourceBufferRef
       THEN UNCHANGED <<videoError, sbUpdating, mediaSourceRef,
                        sourceOpenQueued, chunkPointerRef, hasStartedPlaybackRef, lastAppend>>
       ELSE IF sbUpdating # "no"
       THEN /\ videoError' = "fetch"
            /\ UNCHANGED <<sbUpdating, mediaSourceRef, sourceOpenQueued, chunkPointerRef,
                           hasStartedPlaybackRef, lastAppend>>
       ELSE /\ sbUpdating' = "append"
            /\ mediaSourceRef' = IF mediaSourceRef = "ended" THEN "open" ELSE mediaSourceRef
            /\ sourceOpenQueued' = (sourceOpenQueued \/ mediaSourceRef = "ended")
            /\ lastAppend' = IF f.late THEN "earlier" ELSE "own"
            /\ chunkPointerRef' = f.end + 1
            /\ hasStartedPlaybackRef' = TRUE
            /\ UNCHANGED videoError
    /\ UNCHANGED <<mounted, currentVideoId, streamReloadKey, useMediaSource, renderPending,
                   duration, sourceBufferRef, fileSizeRef, pendingSeekByteRef,
                   isClearingBufferRef, hasMSE, updateendQueued, videoSrc, elemHasMeta,
                   metaPending, session, seeks, metaReqs, fullReqs, reqLog, firstReq, seekTarget>>

\* fetchSegment rejects for the fetch f in flight (network error or a
\* non-2xx status): the catch block shows the error, finally clears the flag.
FetchFailure(f) ==
    /\ UNCHANGED serverVars
    /\ inflight' = inflight (-) SetToBag({f})
    /\ isFetchingChunkRef' = FALSE
    /\ videoError' = IF mounted THEN "fetch" ELSE videoError
    /\ disturbed' = TRUE
    /\ UNCHANGED <<mounted, currentVideoId, streamReloadKey, useMediaSource, renderPending,
                   duration, mediaSourceRef, sourceBufferRef, fileSizeRef, chunkPointerRef,
                   pendingSeekByteRef, isClearingBufferRef, hasStartedPlaybackRef, hasMSE,
                   sbUpdating, updateendQueued, sourceOpenQueued, videoSrc, elemHasMeta,
                   metaPending, session, seeks, metaReqs, fullReqs, reqLog, firstReq, lastAppend,
                   seekTarget>>

\* The buffer finishes the append or the removal it was running: updating
\* becomes false and an updateend event is queued.  An append that was
\* processed gives the video element its media metadata.
BufferUpdateDone ==
    /\ UNCHANGED serverVars
    /\ sourceBufferRef
    /\ sbUpdating # "no"
    /\ sbUpdating' = "no"
    /\ updateendQueued' = updateendQueued + 1
    /\ elemHasMeta' = (elemHasMeta \/ sbUpdating = "append")
    /\ UNCHANGED <<mounted, currentVideoId, streamReloadKey, useMediaSource, renderPending,
                   videoError, duration, mediaSourceRef, sourceBufferRef,
                   fileSizeRef, chunkPointerRef, isFetchingChunkRef, pendingSeekByteRef,
                   isClearingBufferRef, hasStartedPlaybackRef, hasMSE, sourceOpenQueued,
                   videoSrc, metaPending, inflight, session, seeks, metaReqs, fullReqs,
                   reqLog, firstReq, lastAppend, seekTarget, disturbed>>

\* handleSourceBufferUpdateEnd committing a seek without requesting the chunk
\* at its target
handleSourceBufferUpdateEnd_NoRefill ==
    IF ~closureUseMediaSource
    THEN UNCHANGED <<isClearingBufferRef, chunkPointerRef, pendingSeekByteRef,
                     isFetchingChunkRef, mediaSourceRef, inflight, reqLog, firstReq, seekTarget>>
    ELSE IF isClearingBufferRef
    THEN /\ isClearingBufferRef' = FALSE
         /\ chunkPointerRef' = IF pendingSeekByteRef # Null THEN pendingSeekByteRef
                               ELSE chunkPointerRef
         /\ pendingSeekByteRef' = Null
         /\ UNCHANGED <<isFetchingChunkRef, mediaSourceRef, inflight, reqLog, firstReq,
                        seekTarget>>
    ELSE IF chunkPointerRef >= fileSizeRef
    THEN /\ mediaSourceRef' = IF mediaSourceRef = "open" /\ sbUpdating = "no"
                              THEN "ended" ELSE mediaSourceRef
         /\ UNCHANGED <<isClearingBufferRef, chunkPointerRef, pendingSeekByteRef,
                        isFetchingChunkRef, inflight, reqLog, firstReq, seekTarget>>
    ELSE /\ appendNextChunk(chunkPointerRef, sourceBufferRef, mediaSourceRef, sbUpdating,
                            isFetchingChunkRef)
         /\ UNCHANGED <<isClearingBufferRef, chunkPointerRef, pendingSeekByteRef>>

\* handleSourceBufferUpdateEnd, run for a queued updateend event.
\* endOfStream throws (caught) while the buffer is updating.
handleSourceBufferUpdateEnd ==
    IF ~closureUseMediaSource
    THEN UNCHANGED <<isClearingBufferRef, chunkPointerRef, pendingSeekByteRef,
                     isFetchingChunkRef, mediaSourceRef, inflight, reqLog, firstReq, seekTarget>>
    ELSE IF isClearingBufferRef
    THEN LET cp == IF pendingSeekByteRef # Null THEN pendingSeekByteRef ELSE chunkPointerRef
         IN  /\ isClearingBufferRef' = FALSE
             /\ chunkPointerRef' = cp
             /\ pendingSeekByteRef' = Null
             /\ appendNextChunk(cp, sourceBufferRef, mediaSourceRef, sbUpdating,
                                isFetchingChunkRef)
    ELSE IF chunkPointerRef >= fileSizeRef
    THEN /\ mediaSourceRef' = IF mediaSourceRef = "open" /\ sbUpdating = "no"
                              THEN "ended" ELSE mediaSourceRef
         /\ UNCHANGED <<isClearingBufferRef, chunkPointerRef, pendingSeekByteRef,
                        isFetchingChunkRef, inflight, reqLog, firstReq, seekTarget>>
    ELSE /\ appendNextChunk(chunkPointerRef, sourceBufferRef, mediaSourceRef, sbUpdating,
                            isFetchingChunkRef)
         /\ UNCHANGED <<isClearingBufferRef, chunkPointerRef, pendingSeekByteRef>>

\* The updateend event is dispatched to the registered listener
UpdateEnd ==
    /\ UNCHANGED serverVars
    /\ updateendQueued > 0
    /\ updateendQueued' = updateendQueued - 1
    /\ handleSourceBufferUpdateEnd
    /\ UNCHANGED <<mounted, currentVideoId, streamReloadKey, useMediaSource, renderPending,
                   videoError, duration, sourceBufferRef, fileSizeRef,
                   hasStartedPlaybackRef, hasMSE, sbUpdating, sourceOpenQueued, videoSrc,
                   elemHasMeta, metaPending, session, seeks, metaReqs, fullReqs,
                   lastAppend, disturbed>>

\* JavaScript numbers are IEEE 754 doubles: every arithmetic result is rounded
\* to the nearest number with DoublePrecision significant bits, ties to even.
\* The significand of a double is kept here as a sequence of limbs of
\* LimbBits bits below a head, most significant first: the leading 1 and
\* (DoublePrecision - 1) / LimbBits limbs.  Sizes and times are small
\* naturals (below 2^(LimbBits - 1)), so every step fits the integers of TLC.
DoublePrecision == 53
LimbBits == 13
Limb == 2^LimbBits

RECURSIVE BitLength(_)
BitLength(n) == IF n = 0 THEN 0 ELSE 1 + BitLength(n \div 2)

\* The number of zeros that open the binary expansion of r / d, 0 < r < d
RECURSIVE LeadingZeros(_, _)
LeadingZeros(r, d) == IF 2 * r >= d THEN 0 ELSE 1 + LeadingZeros(2 * r, d)

\* 2^n modulo d, by repeated squaring
RECURSIVE Pow2Mod(_, _)
Pow2Mod(n, d) ==
    IF n = 0 THEN 1 % d
    ELSE LET h == Pow2Mod(n \div 2, d)
         IN  (h * h * (IF n % 2 = 1 THEN 2 ELSE 1)) % d

\* The remainder left after n bits of the binary expansion of r / d
RemainderAfter(r, d, n) == (r * Pow2Mod(n, d)) % d

\* The limbs that follow the first n bits of the binary expansion of r / d,
\* down to its bit number upto
RECURSIVE ExpandLimbs(_, _, _, _)
ExpandLimbs(r, d, n, upto) ==
    IF n >= upto THEN <<>>
    ELSE <<(RemainderAfter(r, d, n) * Limb) \div d>>
         \o ExpandLimbs(r, d, n + LimbBits, upto)

\* head and limbs times the small natural n, plus carry; the head takes the
\* carry out of the limbs
RECURSIVE MulCarry(_, _, _)
MulCarry(limbs, n, carry) ==
    IF Len(limbs) = 1 THEN <<limbs[1] * n + carry>>
    ELSE LET v == limbs[Len(limbs)] * n + carry
         IN  MulCarry(SubSeq(limbs, 1, Len(limbs) - 1), n, v \div Limb)
             \o <<v % Limb>>

\* Round to nearest, ties to even: guard is the first dropped bit, sticky
\* says whether a later dropped bit is set, unit is the weight of the last
\* kept bit in the lowest limb.
RoundLimbs(limbs, unit, guard, sticky) ==
    IF guard = 1 /\ (sticky \/ (limbs[Len(limbs)] \div unit) % 2 = 1)
    THEN MulCarry(limbs, 1, unit)
    ELSE limbs

\* The double t / d for integers 0 < t < d: the significand, and the number
\* of zeros between the binary point and its leading 1
DoubleRatio(t, d) ==
    LET z    == LeadingZeros(t, d)
        rest == RemainderAfter(t, d, z + DoublePrecision)
    IN  [limbs |-> RoundLimbs(<<1>> \o ExpandLimbs(t, d, z + 1, z + DoublePrecision),
                              1,
                              IF 2 * rest >= d THEN 1 ELSE 0,
                              (2 * rest) % d # 0),
         zeros |-> z]

\* Math.floor of the double size * ratio.  The product has drop bits more
\* than a double keeps; they are the lowest bits of the lowest limb.  The
\* limbs are the DoublePrecision - 1 bits below the head, the binary point
\* is ratio.zeros + 1 bits inside the head.
FloorDoubleProduct(size, ratio) ==
    LET p     == MulCarry(ratio.limbs, size, 0)
        drop  == BitLength(p[1]) - 1
        low   == p[Len(p)]
        kept  == [p EXCEPT ![Len(p)] = low - (low % 2^drop)]
        round == IF drop = 0 THEN p
                 ELSE RoundLimbs(kept, 2^drop,
                                 (low \div 2^(drop - 1)) % 2,
                                 low % 2^(drop - 1) # 0)
    IN  round[1] \div 2^(ratio.zeros + 1)

\* The byte a seek to time t maps to (handleFragmentedSeek's targetByte):
\* Math.floor(size * (t / dur)) clamped to [0, size - 1].  A ratio of 1 or
\* more is clamped to size - 1 whatever its rounding.
targetByte(size, t, dur) ==
    Min(size - 1,
        Max(0, IF t = 0 THEN 0
               ELSE IF t >= dur THEN size
               ELSE FloorDoubleProduct(size, DoubleRatio(t, dur))))

\* clearSourceBufferForSeek.  abort() throws when the media source is not
\* open or a removal is running; it ends a running append and queues its
\* updateend.  remove() then starts the removal.  A throw is caught and
\* clears the clearing flag.
clearSourceBufferForSeek ==
    IF ~closureUseMediaSource \/ ~sourceBufferRef \/ mediaSourceRef = "null"
    THEN UNCHANGED <<isClearingBufferRef, sbUpdating, updateendQueued>>
    ELSE IF mediaSourceRef # "open" \/ sbUpdating = "remove"
    THEN /\ isClearingBufferRef' = FALSE
         /\ UNCHANGED <<sbUpdating, updateendQueued>>
    ELSE /\ isClearingBufferRef' = TRUE
         /\ updateendQueued' = updateendQueued + (IF sbUpdating = "append" THEN 1 ELSE 0)
         /\ sbUpdating' = "remove"

\* handleFragmentedSeek without the tests of the duration and of the file size
handleFragmentedSeek_Unguarded(t) ==
    IF ~closureUseMediaSource
    THEN UNCHANGED <<pendingSeekByteRef, hasStartedPlaybackRef,
                     isClearingBufferRef, sbUpdating, updateendQueued, seekTarget>>
    ELSE /\ pendingSeekByteRef' = targetByte(fileSizeRef, t, duration)
         /\ hasStartedPlaybackRef' = FALSE
         /\ clearSourceBufferForSeek
         /\ seekTarget' = targetByte(fileSizeRef, t, duration)

\* handleFragmentedSeek, the listener of the video element's seeking event
handleFragmentedSeek(t) ==
    IF ~closureUseMediaSource \/ duration <= 0 \/ fileSizeRef = 0
    THEN UNCHANGED <<pendingSeekByteRef, hasStartedPlaybackRef,
                     isClearingBufferRef, sbUpdating, updateendQueued, seekTarget>>
    ELSE /\ pendingSeekByteRef' = targetByte(fileSizeRef, t, duration)
         /\ hasStartedPlaybackRef' = FALSE
         /\ clearSourceBufferForSeek
         /\ seekTarget' = targetByte(fileSizeRef, t, duration)

\* The video element fires seeking (progress bar click, skip keys); it can
\* only seek once it has media metadata.
Seeking(t) ==
    /\ UNCHANGED serverVars
    /\ mounted
    /\ elemHasMeta
    /\ seeks < MaxSeeks
    /\ seeks' = seeks + 1
    /\ disturbed' = TRUE
    /\ handleFragmentedSeek(t)
    /\ UNCHANGED <<mounted, currentVideoId, streamReloadKey, useMediaSource, renderPending,
                   videoError, duration, mediaSourceRef, sourceBufferRef, fileSizeRef,
                   chunkPointerRef, isFetchingChunkRef, hasMSE, sourceOpenQueued, videoSrc,
                   elemHasMeta, metaPending, inflight, session, metaReqs, fullReqs, reqLog, firstReq,
                   lastAppend>>

\* In direct mode the video element loads the media metadata by itself.  It
\* needs the answer of the stream request issued by load(), which arrives
\* after the re-render that setUseMediaSource(false) scheduled.
DirectLoaded ==
    /\ UNCHANGED serverVars
    /\ videoSrc = "direct"
    /\ ~renderPending
    /\ ~elemHasMeta
    /\ elemHasMeta' = TRUE
    /\ UNCHANGED <<mounted, currentVideoId, streamReloadKey, useMediaSource, renderPending,
                   videoError, duration, mediaSourceRef, sourceBufferRef,
                   fileSizeRef, chunkPointerRef, isFetchingChunkRef, pendingSeekByteRef,
                   isClearingBufferRef, hasStartedPlaybackRef, hasMSE, sbUpdating,
                   updateendQueued, sourceOpenQueued, videoSrc, metaPending, inflight,
                   session, seeks, metaReqs, fullReqs, reqLog, firstReq, lastAppend, seekTarget,
                   disturbed>>

\* handleLoadedMetadata: the duration state takes the media's own duration
handleLoadedMetadata ==
    /\ UNCHANGED serverVars
    /\ mounted
    /\ elemHasMeta
    /\ duration # MaxTime
    /\ duration' = MaxTime
    /\ UNCHANGED <<mounted, currentVideoId, streamReloadKey, useMediaSource, renderPending,
                   videoError, mediaSourceRef, sourceBufferRef,
                   fileSizeRef, chunkPointerRef, isFetchingChunkRef, pendingSeekByteRef,
                   isClearingBufferRef, hasStartedPlaybackRef, hasMSE, sbUpdating,
                   updateendQueued, sourceOpenQueued, videoSrc, elemHasMeta, metaPending,
                   inflight, session, seeks, metaReqs, fullReqs, reqLog, firstReq, lastAppend,
                   seekTarget, disturbed>>

\* handleVideoError: the video element reports a playback error
handleVideoError ==
    /\ UNCHANGED serverVars
    /\ mounted
    /\ videoSrc # "none"
    /\ videoError # "load"
    /\ videoError' = "load"
    /\ UNCHANGED <<mounted, currentVideoId, streamReloadKey, useMediaSource, renderPending,
                   duration, mediaSourceRef, sourceBufferRef, fileSizeRef, chunkPointerRef,
                   isFetchingChunkRef, pendingSeekByteRef, isClearingBufferRef,
                   hasStartedPlaybackRef, hasMSE, sbUpdating, updateendQueued,
                   sourceOpenQueued, videoSrc, elemHasMeta, metaPending, inflight, session,
                   seeks, metaReqs, fullReqs, reqLog, firstReq, lastAppend, seekTarget,
                   disturbed>>


\* ---------------------------------------------------------------- server

\* The users collection (ann and dee are creators, ben and eve are users) and
\* the credentials a request can carry: none, a token that fails verification,
\* the valid token of a user that no longer exists, the valid token of a user.
Users == {"ann", "dee", "ben", "eve"}
role(u) == IF u \in {"ann", "dee"} THEN "creator" ELSE "user"
Tokens == {"none", "invalid", "gone"} \cup Users

\* The courses collection
Courses ==
    [c1 |-> [creator |-> "ann", isPublished |-> TRUE],
     c2 |-> [creator |-> "dee", isPublished |-> TRUE]]

\* The videos collection with the file each video names: a file longer than
\* the server's default chunk, a short file, a file missing from the disk, an
\* empty file.  "vX" identifies no video.
VideoDocs ==
    [v1 |-> [course |-> "c1", fileSize |-> MaxFile, onDisk |-> TRUE],
     v2 |-> [course |-> "c2", fileSize |-> MaxFile - DEFAULT_CHUNK_SIZE, onDisk |-> TRUE],
     v3 |-> [course |-> "c1", fileSize |-> 0, onDisk |-> FALSE],
     v4 |-> [course |-> "c2", fileSize |-> 0, onDisk |-> TRUE]]
VideoIds == DOMAIN VideoDocs \cup {"vX"}

\* A start / end query parameter or a part of a Range header: <<>> when it is
\* missing or not a number (parseInt gives NaN), <<n>> when it parses to n
NaN == <<>>
QueryValues == {NaN} \cup {<<n>> : n \in -1..(MaxFile + 1)}
RangeParts == {NaN} \cup {<<n>> : n \in 0..(MaxFile + 1)}

NoRequest == [route |-> "none", token |-> "none", vid |-> "vX", range |-> FALSE,
              start |-> NaN, end |-> NaN]
NoResp == [req |-> NoRequest, status |-> 0, code |-> "", metadata |-> FALSE, size |-> Null,
           start |-> Null, end |-> Null, length |-> Null, bytes |-> {}, complete |-> TRUE]

AppError(statusCode, code) == [ok |-> FALSE, statusCode |-> statusCode, code |-> code]

\* errorHandler: the JSON error response of an AppError
errorHandler(req, err) ==
    [NoResp EXCEPT !.req = req, !.status = err.statusCode, !.code = err.code]

\* protect without the lookup of the token's user
protect_NoUserLookup(token) ==
    IF token = "none" THEN AppError(401, "UNAUTHORIZED")
    ELSE IF token = "invalid" THEN AppError(401, "UNAUTHORIZED")
    ELSE [ok |-> TRUE, user |-> token]

\* protect: the user of the request, or 401
protect(token) ==
    IF token = "none" THEN AppError(401, "UNAUTHORIZED")
    ELSE IF token = "invalid" THEN AppError(401, "UNAUTHORIZED")
    ELSE IF token \notin Users THEN AppError(401, "UNAUTHORIZED")
    ELSE [ok |-> TRUE, user |-> token]

\* resolveVideoResource answering from the last refusal it gave, without a
\* new look at the purchases
resolveVideoResource_CachedRefusal(videoIdentifier, user) ==
    IF videoIdentifier \notin DOMAIN VideoDocs THEN AppError(404, "NOT_FOUND")
    ELSE LET video == VideoDocs[videoIdentifier]
             isCreator == Courses[video.course].creator = user
             purchase == {p \in purchases : p.user = user /\ p.course = video.course}
         IN  IF lastForbidden = <<user, video.course>> \/ (~isCreator /\ purchase = {})
             THEN AppError(403, "COURSE_NOT_PURCHASED")
             ELSE IF ~video.onDisk THEN AppError(404, "NOT_FOUND")
             ELSE [ok |-> TRUE, fileSize |-> video.fileSize]

\* resolveVideoResource without the ownership and purchase test
resolveVideoResource_NoPurchaseCheck(videoIdentifier, user) ==
    IF videoIdentifier \notin DOMAIN VideoDocs THEN AppError(404, "NOT_FOUND")
    ELSE LET video == VideoDocs[videoIdentifier]
         IN  IF ~video.onDisk THEN AppError(404, "NOT_FOUND")
             ELSE [ok |-> TRUE, fileSize |-> video.fileSize]

\* resolveVideoResource: the access gate
resolveVideoResource(videoIdentifier, user) ==
    IF videoIdentifier \notin DOMAIN VideoDocs THEN AppError(404, "NOT_FOUND")
    ELSE LET video == VideoDocs[videoIdentifier]
             isCreator == Courses[video.course].creator = user
             purchase == {p \in purchases : p.user = user /\ p.course = video.course}
         IN  IF ~isCreator /\ purchase = {} THEN AppError(403, "COURSE_NOT_PURCHASED")
             ELSE IF ~video.onDisk THEN AppError(404, "NOT_FOUND")
             ELSE [ok |-> TRUE, fileSize |-> video.fileSize]

\* partialContent with the end taken as exclusive in length and body
partialContent_EndExclusive(req, fileSize, start, end) ==
    LET readable == 0 <= start /\ start <= end
    IN  [NoResp EXCEPT !.req = req, !.status = 206, !.size = fileSize,
                       !.start = start, !.end = end, !.length = end - start,
                       !.bytes = IF readable THEN start..(end - 1) ELSE {},
                       !.complete = readable]

\* res.writeHead(206, head) and fs.createReadStream(filePath, {start, end}).pipe(res):
\* createReadStream throws unless 0 <= start <= end, after the head was
\* written, and the response then never completes.
partialContent(req, fileSize, start, end) ==
    LET readable == 0 <= start /\ start <= end
    IN  [NoResp EXCEPT !.req = req, !.status = 206, !.size = fileSize,
                       !.start = start, !.end = end, !.length = end - start + 1,
                       !.bytes = IF readable THEN start..end ELSE {},
                       !.complete = readable]

\* res.writeHead(200, head) and fs.createReadStream(filePath).pipe(res)
wholeFile(req, fileSize) ==
    [NoResp EXCEPT !.req = req, !.status = 200, !.size = fileSize, !.length = fileSize,
                   !.bytes = 0..(fileSize - 1)]

streamVideo(req, user) ==
    LET r == resolveVideoResource(req.vid, user)
    IN  IF ~r.ok THEN errorHandler(req, r)
        ELSE IF req.range
        THEN LET fileSize == r.fileSize
                 start == IF req.start # NaN /\ req.start[1] >= 0 THEN req.start[1] ELSE 0
                 end == IF req.end = NaN \/ req.end[1] < start
                        THEN Min(start + DEFAULT_CHUNK_SIZE - 1, fileSize - 1)
                        ELSE Min(req.end[1], fileSize - 1)
             IN  partialContent(req, fileSize, start, end)
        ELSE wholeFile(req, r.fileSize)

\* streamVideoSegment without the re-window of a start at or beyond the size
streamVideoSegment_NoRewindow(req, user) ==
    LET r == resolveVideoResource(req.vid, user)
    IN  IF ~r.ok THEN errorHandler(req, r)
        ELSE LET fileSize == r.fileSize
                 start == IF req.start # NaN /\ req.start[1] >= 0 THEN req.start[1] ELSE 0
                 end == IF req.end = NaN \/ req.end[1] < start
                        THEN Min(start + DEFAULT_CHUNK_SIZE - 1, fileSize - 1)
                        ELSE Min(req.end[1], fileSize - 1)
             IN  partialContent(req, fileSize, start, end)

streamVideoSegment(req, user) ==
    LET r == resolveVideoResource(req.vid, user)
    IN  IF ~r.ok THEN errorHandler(req, r)
        ELSE LET fileSize == r.fileSize
                 start0 == IF req.start # NaN /\ req.start[1] >= 0 THEN req.start[1] ELSE 0
                 end0 == IF req.end = NaN \/ req.end[1] < start0
                         THEN Min(start0 + DEFAULT_CHUNK_SIZE - 1, fileSize - 1)
                         ELSE Min(req.end[1], fileSize - 1)
                 start == IF start0 >= fileSize
                          THEN Max(0, fileSize - DEFAULT_CHUNK_SIZE) ELSE start0
                 end == IF start0 >= fileSize THEN fileSize - 1 ELSE end0
             IN  partialContent(req, fileSize, start, end)

getVideoMetadata(req, user) ==
    LET r == resolveVideoResource(req.vid, user)
    IN  IF ~r.ok THEN errorHandler(req, r)
        ELSE [NoResp EXCEPT !.req = req, !.status = 200, !.metadata = TRUE,
                            !.size = r.fileSize]

\* The router of /api/v1/videos: protect, then the route's handler
videoStreamRoutes(req) ==
    LET auth == protect(req.token)
    IN  IF ~auth.ok THEN errorHandler(req, auth)
        ELSE IF req.route = "stream" THEN streamVideo(req, auth.user)
        ELSE IF req.route = "segments" THEN streamVideoSegment(req, auth.user)
        ELSE getVideoMetadata(req, auth.user)

\* The static mount of the data directory: the file of the path if there is
\* one, whatever the request carries; otherwise the request falls through to
\* the 404 handler.
staticData(req) ==
    IF req.vid \in DOMAIN VideoDocs /\ VideoDocs[req.vid].onDisk
    THEN wholeFile(req, VideoDocs[req.vid].fileSize)
    ELSE errorHandler(req, AppError(404, "NOT_FOUND"))

\* The purchases collection when the server starts: empty, or holding a record
\* whose status is one of the schema's other values (a payment that is pending
\* or was refunded; purchaseCourse itself only writes "completed")
\* ------------------------------------------------------ upload: addVideo
\* Numbers as addVideo meets them: NaN, the infinities, and finite decimals
\* with at most MaxLen fraction digits, kept as integers in units of 1 / Scale.
Scale == 10^MaxLen
NaNValue == [kind |-> "NaN", v |-> 0]
Infinity == [kind |-> "Infinity", v |-> 1]
NegInfinity == [kind |-> "Infinity", v |-> -1]
Finite(n) == [kind |-> "finite", v |-> n]

\* JavaScript values of the form field and of the ffprobe field
JSUndefined == [type |-> "undefined", value |-> <<>>]
JSString(str) == [type |-> "string", value |-> str]
JSNumber(x) == [type |-> "number", value |-> x]

\* Number.isFinite: false for what is not a number
Number_isFinite(val) == val.type = "number" /\ val.value.kind = "finite"

\* Strings: sequences of these characters; the word Infinity counts as one
Digits == {"0", "1", "5"}
Chars == Digits \cup {".", "-", "s", "Infinity"}
DigitValue(c) == IF c = "0" THEN 0 ELSE IF c = "1" THEN 1 ELSE 5

RECURSIVE StringsOfLength(_)
StringsOfLength(n) ==
    IF n = 0 THEN {<<>>}
    ELSE {Append(str, c) : str \in StringsOfLength(n - 1), c \in Chars}

Strings(maxLen) == UNION {StringsOfLength(n) : n \in 0..maxLen}

RECURSIVE DigitPrefix(_)
DigitPrefix(str) ==
    IF str = <<>> \/ str[1] \notin Digits THEN <<>>
    ELSE <<str[1]>> \o DigitPrefix(Tail(str))

RECURSIVE Decimal(_)
Decimal(digits) ==
    IF digits = <<>> THEN 0
    ELSE 10 * Decimal(SubSeq(digits, 1, Len(digits) - 1))
         + DigitValue(digits[Len(digits)])

\* The longest prefix of str that is a decimal literal (sign, then Infinity
\* or digits, point, digits): whether there is one, its value and its length
NumericPrefix(str) ==
    LET neg      == str # <<>> /\ str[1] = "-"
        body     == IF neg THEN Tail(str) ELSE str
        int      == DigitPrefix(body)
        afterInt == SubSeq(body, Len(int) + 1, Len(body))
        hasPoint == afterInt # <<>> /\ afterInt[1] = "."
        frac     == IF hasPoint THEN DigitPrefix(Tail(afterInt)) ELSE <<>>
        mag      == Decimal(int) * Scale + Decimal(frac) * 10^(MaxLen - Len(frac))
    IN  IF body # <<>> /\ body[1] = "Infinity"
        THEN [ok     |-> TRUE,
              value  |-> IF neg THEN NegInfinity ELSE Infinity,
              length |-> (IF neg THEN 1 ELSE 0) + 1]
        ELSE [ok     |-> int # <<>> \/ frac # <<>>,
              value  |-> Finite(IF neg THEN 0 - mag ELSE mag),
              length |-> (IF neg THEN 1 ELSE 0) + Len(int)
                         + (IF hasPoint THEN 1 + Len(frac) ELSE 0)]

\* Number.parseFloat of a string: the value of its numeric prefix, else NaN
Number_parseFloat(val) ==
    JSNumber(IF NumericPrefix(val.value).ok THEN NumericPrefix(val.value).value
             ELSE NaNValue)

\* Number(value): a number is itself, undefined is NaN, the empty string is 0,
\* a string that is a numeric literal as a whole is its value, else NaN
ToNumber(val) ==
    IF val.type = "number" THEN val
    ELSE IF val.type = "undefined" THEN JSNumber(NaNValue)
    ELSE IF val.value = <<>> THEN JSNumber(Finite(0))
    ELSE IF NumericPrefix(val.value).ok /\ NumericPrefix(val.value).length = Len(val.value)
    THEN JSNumber(NumericPrefix(val.value).value)
    ELSE JSNumber(NaNValue)

\* Math.round truncating toward zero
Math_round_Truncating(val) ==
    JSNumber(Finite(IF val.value.v >= 0 THEN val.value.v \div Scale
                    ELSE 0 - ((0 - val.value.v) \div Scale)))

\* Math.round of a finite number: the nearest integer, halves upwards
Math_round(val) ==
    JSNumber(Finite((val.value.v + Scale \div 2) \div Scale))

\* What ffprobe reports for the file: an error, or the format.duration field,
\* which is missing, a number or a string
ProbedNumbers ==
    {NaNValue, Infinity, NegInfinity}
    \cup {Finite(n * (Scale \div 2)) : n \in -1..(2 * MaxLen)}
ProbeOutcomes ==
    {[err |-> TRUE, rawDuration |-> JSUndefined]}
    \cup {[err |-> FALSE, rawDuration |-> raw] :
             raw \in {JSUndefined} \cup {JSNumber(x) : x \in ProbedNumbers}
                     \cup {JSString(str) : str \in Strings(MaxLen - 1)}}

\* probeVideoDuration: resolves 0 unless ffprobe reports a finite positive duration
probeVideoDuration(filePath, outcome) ==
    IF ~filePath THEN JSNumber(Finite(0))
    ELSE IF outcome.err THEN JSNumber(Finite(0))
    ELSE LET rawDuration == outcome.rawDuration
             numeric == IF Number_isFinite(rawDuration) THEN rawDuration
                        ELSE ToNumber(rawDuration)
         IN  IF Number_isFinite(numeric) /\ numeric.value.v > 0 THEN numeric
             ELSE JSNumber(Finite(0))

\* A request to addVideo: what the lookups and the form give, and what
\* ffprobe would report for the uploaded file
NoUploadRequest ==
    [course |-> TRUE, owner |-> TRUE, section |-> TRUE, file |-> TRUE, title |-> TRUE,
     duration |-> JSUndefined, probe |-> [err |-> TRUE, rawDuration |-> JSUndefined]]
NoUpload ==
    [req |-> NoUploadRequest, status |-> 0, code |-> "", probed |-> FALSE,
     duration |-> JSUndefined]

UploadError(req, err) ==
    [NoUpload EXCEPT !.req = req, !.status = err.statusCode, !.code = err.code]

\* addVideo: the checks, the duration of the new video (the form's when it
\* is a positive number, else the probed one), Video.create and the 201 answer
addVideo(req) ==
    IF ~req.course THEN UploadError(req, AppError(404, "NOT_FOUND"))
    ELSE IF ~req.owner THEN UploadError(req, AppError(403, "FORBIDDEN"))
    ELSE IF ~req.section THEN UploadError(req, AppError(404, "NOT_FOUND"))
    ELSE IF ~req.file THEN UploadError(req, AppError(400, "VALIDATION_ERROR"))
    ELSE IF ~req.title THEN UploadError(req, AppError(400, "VALIDATION_ERROR"))
    ELSE LET parsedDuration == Number_parseFloat(req.duration)
             providedDuration ==
                 IF req.duration # JSUndefined /\ Number_isFinite(parsedDuration)
                    /\ parsedDuration.value.v > 0
                 THEN parsedDuration ELSE JSNumber(Finite(0))
             probes == providedDuration.value.v <= 0
             durationSeconds == IF probes THEN probeVideoDuration(TRUE, req.probe)
                                ELSE providedDuration
             roundedDuration == IF Number_isFinite(durationSeconds)
                                THEN JSNumber(Finite(Max(0, Math_round(durationSeconds).value.v)))
                                ELSE JSNumber(Finite(0))
         IN  [NoUpload EXCEPT !.req = req, !.status = 201, !.probed = probes,
                              !.duration = roundedDuration]

PurchaseStatus == {"pending", "completed", "refunded"}
InitialPurchases ==
    {{}} \cup {{[user |-> "eve", course |-> "c1", status |-> s]} :
                  s \in PurchaseStatus \ {"completed"}}

NoOne == <<>>

\* The observation after the response r
Refused(r) ==
    IF r.status = 403 THEN <<r.req.token, VideoDocs[r.req.vid].course>> ELSE lastForbidden

ServerInit ==
    /\ purchases \in InitialPurchases
    /\ resp = NoResp
    /\ lastForbidden = NoOne
    /\ upload = NoUpload

\* GET /api/v1/videos/metadata/:videoId
GetMetadata ==
    /\ resp = NoResp
    /\ \E token \in Tokens, vid \in VideoIds :
          resp' = videoStreamRoutes([NoRequest EXCEPT !.route = "metadata",
                                                      !.token = token, !.vid = vid])
    /\ lastForbidden' = Refused(resp')
    /\ UNCHANGED <<purchases, upload, clientVars>>

\* GET /api/v1/videos/segments/:videoId?start=..&end=..
GetSegment ==
    /\ resp = NoResp
    /\ \E token \in Tokens, vid \in VideoIds, start, end \in QueryValues :
          resp' = videoStreamRoutes([NoRequest EXCEPT !.route = "segments",
                                                      !.token = token, !.vid = vid,
                                                      !.start = start, !.end = end])
    /\ lastForbidden' = Refused(resp')
    /\ UNCHANGED <<purchases, upload, clientVars>>

\* GET /api/v1/videos/stream/:videoId, without or with a Range header
GetStream ==
    /\ resp = NoResp
    /\ \/ \E token \in Tokens, vid \in VideoIds :
             resp' = videoStreamRoutes([NoRequest EXCEPT !.route = "stream",
                                                         !.token = token, !.vid = vid])
       \/ \E token \in Tokens, vid \in VideoIds, start, end \in RangeParts :
             resp' = videoStreamRoutes([NoRequest EXCEPT !.route = "stream",
                                                         !.token = token, !.vid = vid,
                                                         !.range = TRUE,
                                                         !.start = start, !.end = end])
    /\ lastForbidden' = Refused(resp')
    /\ UNCHANGED <<purchases, upload, clientVars>>

\* GET /data/<courseId>/<filename> (no Range header)
GetStatic ==
    /\ resp = NoResp
    /\ \E token \in Tokens, vid \in VideoIds :
          resp' = staticData([NoRequest EXCEPT !.route = "data", !.token = token,
                                               !.vid = vid])
    /\ UNCHANGED <<purchases, lastForbidden, upload, clientVars>>

\* The response has been sent (res.json returned, the piped stream ended or
\* broke): the server takes the next request
ResponseSent ==
    /\ resp # NoResp
    /\ resp' = NoResp
    /\ UNCHANGED <<purchases, lastForbidden, upload, clientVars>>

\* POST /api/v1/purchases, when it creates the purchase: an existing user of
\* role user buys a published course that is not theirs and that they have
\* not bought yet
purchaseCourse(token, courseId) ==
    /\ protect(token).ok
    /\ role(token) = "user"
    /\ courseId \in DOMAIN Courses
    /\ Courses[courseId].creator # token
    /\ Courses[courseId].isPublished
    /\ ~\E p \in purchases : p.user = token /\ p.course = courseId
    /\ purchases' = purchases \cup {[user |-> token, course |-> courseId,
                                     status |-> "completed"]}
    /\ resp' = NoResp
    /\ UNCHANGED <<lastForbidden, upload, clientVars>>

ServerNext ==
    \/ GetMetadata
    \/ GetSegment
    \/ GetStream
    \/ GetStatic
    \/ ResponseSent
    \/ \E token \in Tokens, courseId \in DOMAIN Courses : purchaseCourse(token, courseId)

\* POST /api/v1/courses/:courseId/sections/:sectionId/videos: a request that
\* fails one of the checks, or one that passes them with any duration field
\* and any report of ffprobe
RefusedRequests ==
    {[NoUploadRequest EXCEPT ![f] = FALSE] :
        f \in {"course", "owner", "section", "file", "title"}}
SuppliedDurations == {JSUndefined} \cup {JSString(str) : str \in Strings(MaxLen)}

AddVideo ==
    /\ upload = NoUpload
    /\ \/ \E req \in RefusedRequests : upload' = addVideo(req)
       \/ \E d \in SuppliedDurations, o \in ProbeOutcomes :
              upload' = addVideo([NoUploadRequest EXCEPT !.duration = d, !.probe = o])
    /\ UNCHANGED <<purchases, resp, lastForbidden, clientVars>>

\* The answer has been sent
UploadSent ==
    /\ upload # NoUpload
    /\ upload' = NoUpload
    /\ UNCHANGED <<purchases, resp, lastForbidden, clientVars>>

UploadNext ==
    \/ AddVideo
    \/ UploadSent

\* ------------------------------------------------------------ specifications

vars == <<clientVars, serverVars>>

Init == ClientInit /\ ServerInit /\ purchases = {}

ServerSpecInit == ClientInit /\ hasMSE /\ ServerInit

Next ==
    \/ \E v \in Videos : ChangeVideo(v)
    \/ Retry
    \/ EffectRerun
    \/ Unmount
    \/ MetadataSuccess
    \/ MetadataFailure
    \/ SourceOpen
    \/ \E f \in BagToSet(inflight) : FetchSuccess(f)
    \/ \E f \in BagToSet(inflight) : FetchFailure(f)
    \/ BufferUpdateDone
    \/ UpdateEnd
    \/ \E t \in 0..MaxTime : Seeking(t)
    \/ DirectLoaded
    \/ handleLoadedMetadata
    \/ handleVideoError

Spec == Init /\ [][Next]_vars

\* ---------------------------------------------------------------- seeking
\* The seek computation over a range of sizes and durations: the page plays
\* an asset of more than one chunk through MediaSource, its first chunk is
\* appended and the second one requested, and the viewer seeks.
MaxSeekSize == 22
MaxSeekTime == 22

Playing(size, dur) ==
    /\ mounted = TRUE
    /\ currentVideoId = [size |-> size, duration |-> dur, supported |-> TRUE]
    /\ streamReloadKey = 0
    /\ hasMSE = TRUE
    /\ useMediaSource = TRUE
    /\ renderPending = FALSE
    /\ videoError = "none"
    /\ duration = dur
    /\ mediaSourceRef = "open"
    /\ sourceBufferRef = TRUE
    /\ fileSizeRef = size
    /\ chunkPointerRef = STREAM_CHUNK_SIZE
    /\ isFetchingChunkRef = TRUE
    /\ pendingSeekByteRef = Null
    /\ isClearingBufferRef = FALSE
    /\ hasStartedPlaybackRef = TRUE
    /\ sbUpdating = "no"
    /\ updateendQueued = 0
    /\ sourceOpenQueued = FALSE
    /\ videoSrc = "mse"
    /\ elemHasMeta = TRUE
    /\ metaPending = FALSE
    /\ inflight = SetToBag({[start |-> STREAM_CHUNK_SIZE,
                             end   |-> Min(2 * STREAM_CHUNK_SIZE, size) - 1,
                             late  |-> FALSE]})
    /\ session = 1
    /\ seeks = 0
    /\ metaReqs = 1
    /\ fullReqs = 0
    /\ reqLog = <<[start |-> 0, end |-> STREAM_CHUNK_SIZE - 1],
                  [start |-> STREAM_CHUNK_SIZE,
                   end   |-> Min(2 * STREAM_CHUNK_SIZE, size) - 1]>>
    /\ firstReq = 0
    /\ lastAppend = "own"
    /\ seekTarget = Null
    /\ disturbed = FALSE

SeekInit ==
    /\ \E size \in (STREAM_CHUNK_SIZE + 1)..MaxSeekSize, dur \in 1..MaxSeekTime :
           Playing(size, dur)
    /\ purchases = {}
    /\ resp = NoResp
    /\ lastForbidden = NoOne
    /\ upload = NoUpload

SeekNext == \E t \in 0..duration : Seeking(t)

SeekSpec == SeekInit /\ [][SeekNext]_vars

ServerSpec == ServerSpecInit /\ [][ServerNext]_vars

UploadInit == ClientInit /\ hasMSE /\ ServerInit /\ purchases = {}

UploadSpec == UploadInit /\ [][UploadNext]_vars

\* ---------------------------------------------------------- pull pipeline
\* One session of a page with MediaSource under a well-behaved environment:
\* one video is selected and never changed, no request fails, the page stays
\* mounted, the viewer seeks at most MaxSeeks times.  Every answer of the
\* network and every event of the buffer is eventually delivered.
PullInit == ClientInit /\ hasMSE /\ ServerInit /\ purchases = {}

PullNext ==
    \/ \E v \in Videos : session = 0 /\ ChangeVideo(v)
    \/ EffectRerun
    \/ MetadataSuccess
    \/ SourceOpen
    \/ \E f \in BagToSet(inflight) : FetchSuccess(f)
    \/ BufferUpdateDone
    \/ UpdateEnd
    \/ \E t \in 0..MaxTime : Seeking(t)
    \/ handleLoadedMetadata

PullFairness ==
    /\ WF_vars(EffectRerun)
    /\ WF_vars(MetadataSuccess)
    /\ WF_vars(SourceOpen)
    /\ WF_vars(\E f \in BagToSet(inflight) : FetchSuccess(f))
    /\ WF_vars(BufferUpdateDone)
    /\ WF_vars(UpdateEnd)

PullSpec == PullInit /\ [][PullNext]_vars /\ PullFairness

\* ------------------------------------------------------------------ claims

\* The segment fetches in flight that the current session issued
OwnInflight == {r \in BagToSet(inflight) : ~r.late}
OwnInflightCount == IF OwnInflight = {} THEN 0
                    ELSE BagCardinality([r \in OwnInflight |-> CopiesIn(r, inflight)])

\* A step that issues a segment request
IssuesSegment == BagCardinality(inflight') > BagCardinality(inflight)

\* C1: at every instant at most one segment fetch issued by the active
\* session is in flight.
C1_AtMostOneFetchInFlight == OwnInflightCount <= 1

\* C2: the response of a fetch issued by a session that has since been torn
\* down (video change or retry) is never appended to the current buffer.
C2_LateResponseDiscarded == lastAppend # "earlier"

\* C3: the first segment request issued after a seek begins at the seek's
\* target byte.
C3_RequestAfterSeekAtTarget ==
    [][(IssuesSegment /\ seekTarget # Null)
        => \E r \in BagToSet(inflight') :
              /\ CopiesIn(r, inflight') > CopiesIn(r, inflight)
              /\ r.start = seekTarget]_vars

\* C4: while the session's buffer lives, the cursor decreases only in the step
\* that handles the completion of a seek's clear and commits the pending seek
\* byte.
C4_CursorMonotonic ==
    [][(sourceBufferRef /\ sourceBufferRef' /\ session' = session
        /\ chunkPointerRef' < chunkPointerRef)
        => (/\ isClearingBufferRef /\ ~isClearingBufferRef'
            /\ pendingSeekByteRef # Null
            /\ chunkPointerRef' = pendingSeekByteRef)]_vars

CeilDiv(a, b) == (a + b - 1) \div b

\* C5: in a session without seek, failure or response of an earlier session,
\* the k-th segment request is [(k-1)*CHUNK, min(k*CHUNK, size) - 1], there
\* are never more than ceil(size/CHUNK) requests, and when end of stream is
\* signalled there are exactly that many, the last one ending at size - 1.
C5_SequentialChunks ==
    ~disturbed =>
        LET size == currentVideoId.size
            n == Len(reqLog)
        IN  /\ \A k \in 1..n :
                 reqLog[k] = [start |-> (k - 1) * STREAM_CHUNK_SIZE,
                              end |-> Min(k * STREAM_CHUNK_SIZE, size) - 1]
            /\ n <= CeilDiv(size, STREAM_CHUNK_SIZE)
            /\ mediaSourceRef = "ended" =>
                 /\ n = CeilDiv(size, STREAM_CHUNK_SIZE)
                 /\ reqLog[n].end = size - 1

C5_Witness ==
    /\ ~disturbed
    /\ mediaSourceRef = "ended"
    /\ Len(reqLog) >= 2
    /\ reqLog[Len(reqLog)].end - reqLog[Len(reqLog)].start + 1 < STREAM_CHUNK_SIZE

\* C6: while the error of a failed chunk fetch is shown, no step issues a
\* segment request.
C6_NoRequestInError ==
    [][(videoError = "fetch" /\ session' = session) => ~IssuesSegment]_vars

\* A step of the Retry button
RetryStep == streamReloadKey' = streamReloadKey + 1

\* The refs of the session are at their reset values
SessionReset ==
    /\ chunkPointerRef = 0
    /\ fileSizeRef = 0
    /\ ~isFetchingChunkRef
    /\ ~isClearingBufferRef
    /\ pendingSeekByteRef = Null
    /\ ~hasStartedPlaybackRef

C8_UnsupportedMimeOneFullRequest ==
    (currentVideoId # NoVideo /\ ~currentVideoId.supported) =>
        /\ firstReq = Null
        /\ OwnInflight = {}
        /\ fullReqs <= 1
        /\ (videoSrc = "direct" => fullReqs = 1)

\* The video of the response being sent, and whether the requester is the
\* creator of its course or holds a purchase of its course
RespVideo == VideoDocs[resp.req.vid]
RespOwner == Courses[RespVideo.course].creator = resp.req.token
RespPurchaser == \E p \in purchases : p.user = resp.req.token /\ p.course = RespVideo.course

\* C9: on the metadata, segment and full-stream routes, for a video whose file
\* exists, an authenticated requester who is neither the creator of the
\* video's course nor a purchaser of it gets 403 with no bytes and no
\* metadata; the creator and a purchaser get a 2xx response for that file.
C9_Authorization ==
    (/\ resp.req.route \in {"metadata", "segments", "stream"}
     /\ resp.req.token \in Users
     /\ resp.req.vid \in DOMAIN VideoDocs
     /\ RespVideo.onDisk)
    => IF RespOwner \/ RespPurchaser
       THEN /\ resp.status \in {200, 206}
            /\ resp.size = RespVideo.fileSize
            /\ resp.req.route = "metadata" => resp.metadata
       ELSE /\ resp.status = 403
            /\ resp.code = "COURSE_NOT_PURCHASED"
            /\ resp.bytes = {}
            /\ ~resp.metadata
            /\ resp.size = Null

\* A purchaser who is not the creator is being served bytes of the segment route
C9_Witness ==
    /\ resp.req.route = "segments"
    /\ resp.req.token \in Users
    /\ resp.req.vid \in DOMAIN VideoDocs
    /\ ~RespOwner
    /\ RespPurchaser
    /\ resp.bytes # {}

\* C10: bytes of a stored video file are only served to a request that carries
\* a valid identity of the creator or of a purchaser of the video's course.
C10_NoBytesWithoutGate ==
    resp.bytes # {} =>
        /\ resp.req.token \in Users
        /\ resp.req.vid \in DOMAIN VideoDocs
        /\ RespOwner \/ RespPurchaser

C12_UnauthorizedVsForbidden ==
    resp.req.route \in {"metadata", "segments", "stream"} =>
        /\ resp.req.token \notin Users =>
              /\ resp.status = 401
              /\ resp.code = "UNAUTHORIZED"
              /\ resp.bytes = {} /\ ~resp.metadata /\ resp.size = Null
        /\ (/\ resp.req.token \in Users
            /\ resp.req.vid \in DOMAIN VideoDocs
            /\ ~RespOwner /\ ~RespPurchaser) =>
              /\ resp.status = 403
              /\ resp.code = "COURSE_NOT_PURCHASED"
        /\ resp.status = 401 => resp.req.token \notin Users
        /\ resp.status = 403 =>
              /\ resp.req.token \in Users
              /\ resp.req.vid \in DOMAIN VideoDocs
              /\ ~RespOwner /\ ~RespPurchaser

\* The token of a user that no longer exists asks for a video that does not
\* exist either and gets 401, not 404
C12_Witness ==
    /\ resp.req.route = "stream"
    /\ resp.req.token = "gone"
    /\ resp.req.vid = "vX"
    /\ resp.status = 401

\* The response of the segment route to the request whose query parameters
\* are the parts of the Range header of the stream request being answered
SegmentTwin ==
    videoStreamRoutes([resp.req EXCEPT !.route = "segments", !.range = FALSE])

\* C13: a stream request with the header bytes=start-end gets the same status,
\* Content-Range, Content-Length and bytes as the segment request with the
\* query parameters start and end.
C13_StreamRangeAsSegment ==
    (resp.req.route = "stream" /\ resp.req.range) =>
        /\ resp.status = SegmentTwin.status
        /\ resp.start = SegmentTwin.start
        /\ resp.end = SegmentTwin.end
        /\ resp.size = SegmentTwin.size
        /\ resp.length = SegmentTwin.length
        /\ resp.bytes = SegmentTwin.bytes

\* A segment request that passed the gate for a file that is not empty
SegmentServed ==
    /\ resp.req.route = "segments"
    /\ resp.status \notin {0, 401, 403, 404}
    /\ VideoDocs[resp.req.vid].fileSize > 0

Clamp(x, lo, hi) == Min(Max(x, lo), hi)

\* C14: for a file of size > 0 and any start and end, the segment route
\* answers 206 with 0 <= start' <= end' <= size - 1, start' the requested start
\* clamped to [0, size - 1] (0 when it is missing or not a number), end' the
\* requested end clamped to [start', size - 1], Content-Range start'-end'/size
\* and Content-Length end' - start' + 1 >= 1.  Stated for a requested start
\* below the size: a start at or beyond it is re-windowed (C15).
C14_SegmentClamped ==
    (/\ SegmentServed
     /\ resp.req.start # NaN => resp.req.start[1] < VideoDocs[resp.req.vid].fileSize)
    => LET size == VideoDocs[resp.req.vid].fileSize
           start == IF resp.req.start = NaN THEN 0 ELSE resp.req.start[1]
       IN  /\ resp.status = 206
           /\ 0 <= resp.start /\ resp.start <= resp.end /\ resp.end <= size - 1
           /\ resp.start = Clamp(start, 0, size - 1)
           /\ resp.req.end # NaN => resp.end = Clamp(resp.req.end[1], resp.start, size - 1)
           /\ resp.size = size
           /\ resp.length = resp.end - resp.start + 1
           /\ resp.length >= 1

\* A segment request that passed the gate and whose start is at or beyond the
\* size of the file
SegmentBeyondEnd ==
    /\ resp.req.route = "segments"
    /\ resp.status \notin {0, 401, 403, 404}
    /\ resp.req.start # NaN
    /\ resp.req.start[1] >= VideoDocs[resp.req.vid].fileSize

\* The response is the complete 206 response for the final window of the file
TrailingWindow ==
    LET size == VideoDocs[resp.req.vid].fileSize
    IN  /\ resp.status = 206
        /\ resp.end = size - 1
        /\ resp.start = Max(0, size - DEFAULT_CHUNK_SIZE)
        /\ resp.size = size
        /\ resp.length = resp.end - resp.start + 1
        /\ resp.bytes = resp.start..resp.end
        /\ resp.bytes # {}
        /\ resp.complete

\* C15 as stated: a segment request whose start >= size is answered, whatever
\* end it names, with the final window [max(0, size - chunk), size - 1] and
\* not with an error.
C15_RewindowBeyondEnd == SegmentBeyondEnd => TrailingWindow

\* C15 amended: the same for a file of size > 0.
C15_RewindowBeyondEndNonEmpty ==
    (SegmentBeyondEnd /\ VideoDocs[resp.req.vid].fileSize > 0) => TrailingWindow

\* A start beyond the end of a file longer than the server's chunk, with an
\* end inside the file, is answered with the last chunk of the file
C15_Witness ==
    /\ SegmentBeyondEnd
    /\ VideoDocs[resp.req.vid].fileSize > DEFAULT_CHUNK_SIZE
    /\ resp.req.end # NaN
    /\ resp.req.end[1] < VideoDocs[resp.req.vid].fileSize
    /\ resp.start = VideoDocs[resp.req.vid].fileSize - DEFAULT_CHUNK_SIZE
    /\ resp.end = VideoDocs[resp.req.vid].fileSize - 1

\* A segment request that passed the gate with 0 <= start <= end < size
SegmentInRange ==
    /\ resp.req.route = "segments"
    /\ resp.status \notin {0, 401, 403, 404}
    /\ resp.req.start # NaN
    /\ resp.req.end # NaN
    /\ 0 <= resp.req.start[1]
    /\ resp.req.start[1] <= resp.req.end[1]
    /\ resp.req.end[1] < VideoDocs[resp.req.vid].fileSize

\* C16: for 0 <= start <= end < size the segment route answers 206 with
\* Content-Range start-end/size for the requested start and end unchanged,
\* Content-Length end - start + 1, and exactly the bytes start..end.
C16_ExactSlice ==
    SegmentInRange =>
        /\ resp.status = 206
        /\ resp.start = resp.req.start[1]
        /\ resp.end = resp.req.end[1]
        /\ resp.size = VideoDocs[resp.req.vid].fileSize
        /\ resp.length = resp.req.end[1] - resp.req.start[1] + 1
        /\ resp.bytes = resp.req.start[1]..resp.req.end[1]
        /\ resp.complete

\* A slice of several bytes strictly inside the file is being served
C16_Witness ==
    /\ SegmentInRange
    /\ 0 < resp.req.start[1]
    /\ resp.req.start[1] < resp.req.end[1]
    /\ resp.req.end[1] < VideoDocs[resp.req.vid].fileSize - 1
    /\ Cardinality(resp.bytes) = resp.req.end[1] - resp.req.start[1] + 1

\* C17: a seek to time t on an asset of size > 0 and duration > 0, with
\* 0 <= t <= duration, stores pending-seek-byte =
\* clamp(floor(size * t / duration), 0, size - 1); so the stored byte lies in
\* [0, size - 1] and is size - 1 when t = duration.
SeekByte(size, t, dur) == Clamp((size * t) \div dur, 0, size - 1)

C17_SeekByte ==
    [][\A t \in 0..MaxSeekTime :
          (fileSizeRef > 0 /\ duration > 0 /\ t <= duration /\ Seeking(t))
              => pendingSeekByteRef' = SeekByte(fileSizeRef, t, duration)]_vars

\* C18: every playback session issues exactly one asset-metadata request,
\* whichever strategy it ends in, and a session in DirectMode issues exactly
\* one full-resource request.
C18_OneMetadataRequest ==
    /\ (mounted /\ currentVideoId # NoVideo) => metaReqs = 1
    /\ (mounted /\ videoSrc = "direct") => fullReqs = 1

\* C19: authorization is evaluated afresh on every metadata, segment and
\* full-stream request: a request with a valid identity for an existing
\* video is refused with 403 exactly when, at that moment, the requester is
\* neither the creator of the video's course nor the holder of a purchase
\* record of it, whatever the outcome of earlier requests was.
C19_FreshAuthorization ==
    [][(/\ resp = NoResp
        /\ resp' # NoResp
        /\ resp'.req.route \in {"metadata", "segments", "stream"}
        /\ resp'.req.token \in Users
        /\ resp'.req.vid \in DOMAIN VideoDocs)
       => LET course == VideoDocs[resp'.req.vid].course
              access == \/ Courses[course].creator = resp'.req.token
                        \/ \E p \in purchases :
                              p.user = resp'.req.token /\ p.course = course
          IN  /\ resp'.status = 403 <=> ~access
              /\ resp'.status \in {200, 206, 404} <=> access]_vars

\* A request is granted to the requester whose last request for the same
\* course was the last one refused: the purchase was created in between
C19_Witness ==
    /\ resp.req.route \in {"metadata", "segments", "stream"}
    /\ resp.status \in {200, 206}
    /\ lastForbidden = <<resp.req.token, RespVideo.course>>

\* C20: the duration stored at creation is an integer >= 0; a positive duration
\* supplied by the uploader is stored rounded and the file is not probed;
\* otherwise the file is probed and the rounded probed duration is stored,
\* or 0 when the probe fails or reports a value that is not a positive finite
\* number; the creation succeeds in each of these cases.
Created == upload # NoUpload /\ upload.status = 201
Supplied == IF upload.req.duration.type = "undefined" THEN NaNValue
            ELSE Number_parseFloat(upload.req.duration).value
Reported == IF upload.req.probe.err THEN NaNValue
            ELSE ToNumber(upload.req.probe.rawDuration).value
Positive(x) == x.kind # "NaN" /\ x.v > 0
PositiveFinite(x) == x.kind = "finite" /\ x.v > 0
Nearest(x) == CHOOSE n \in (x.v \div Scale)..(x.v \div Scale + 1) :
                 2 * Scale * n - Scale <= 2 * x.v /\ 2 * x.v < 2 * Scale * n + Scale
ChecksPass == \A f \in {"course", "owner", "section", "file", "title"} : upload.req[f]
StoredInteger == Number_isFinite(upload.duration) /\ upload.duration.value.v \in Nat
StoredFromProbe ==
    /\ upload.probed
    /\ upload.duration.value.v =
           IF PositiveFinite(Reported) THEN Nearest(Reported) ELSE 0

\* C20: once the course, owner, section, file and title checks pass the
\* upload is created (201) whatever the duration inputs are; the stored
\* duration is an integer >= 0; a positive supplied duration is stored
\* rounded to the nearest integer without probing the file; otherwise the
\* file is probed, and a probe that fails or reports a value that is not
\* positive and finite gives 0.
C20_StoredDuration ==
    /\ (upload # NoUpload /\ ChecksPass) => upload.status = 201
    /\ Created =>
        /\ StoredInteger
        /\ IF Positive(Supplied)
           THEN ~upload.probed /\ upload.duration.value.v = Nearest(Supplied)
           ELSE StoredFromProbe

\* C20, with the supplied duration required to be finite as well as positive:
\* a supplied duration that is not a positive finite number (missing, not
\* numeric, zero, negative, infinite) leads to the probe.
C20_StoredDurationFinite ==
    /\ (upload # NoUpload /\ ChecksPass) => upload.status = 201
    /\ Created =>
        /\ StoredInteger
        /\ IF PositiveFinite(Supplied)
           THEN ~upload.probed /\ upload.duration.value.v = Nearest(Supplied)
           ELSE StoredFromProbe

\* A creation whose supplied duration is positive but not finite: the file
\* was probed and the rounded probed duration stored
C20_Witness ==
    /\ Created
    /\ Positive(Supplied) /\ ~PositiveFinite(Supplied)
    /\ upload.probed
    /\ PositiveFinite(Reported)
    /\ upload.duration.value.v = Nearest(Reported)
    /\ upload.duration.value.v > 0

\* C21: the fetching flag and the buffer-clearing flag are never both true.
C21_FetchingClearingExclusive == ~(isFetchingChunkRef /\ isClearingBufferRef)

\* C22: while the removal started by a seek is still running (so before the
\* completion callback of that clear can fire) no step issues a segment
\* request, no step appends a chunk, and no step moves the cursor or consumes
\* the pending seek byte.
C22_NothingBeforeClearCompletes ==
    [][sbUpdating = "remove" =>
          /\ ~IssuesSegment
          /\ sbUpdating' # "append"
          /\ sbUpdating' = "remove" =>
                /\ chunkPointerRef' = chunkPointerRef
                /\ (pendingSeekByteRef # Null => pendingSeekByteRef' # Null)]_vars

\* A step of the stream effect's cleanup: a video change, a retry or the unmount
Teardown == session' # session \/ (mounted /\ ~mounted')

\* The completion (success or failure) of a fetch issued before a teardown
LateCompletion ==
    \E f \in BagToSet(inflight) : f.late /\ inflight' = inflight (-) SetToBag({f})

\* C23: a teardown releases the buffer and resets cursor, size, fetching,
\* clearing, pending seek byte and first-byte-appended; the completion of a
\* fetch issued before the teardown changes no field of the current session.
C23_TeardownIsolatesSessions ==
    /\ [][Teardown => (~sourceBufferRef' /\ mediaSourceRef' = "null" /\ SessionReset')]_vars
    /\ [][LateCompletion =>
            UNCHANGED <<chunkPointerRef, isFetchingChunkRef, fileSizeRef,
                        isClearingBufferRef, pendingSeekByteRef, hasStartedPlaybackRef,
                        sourceBufferRef, mediaSourceRef, sbUpdating, videoError>>]_vars

\* The session plays the full-resource stream
DirectMode == videoSrc = "direct"

\* C24: DirectMode is entered only at initialize, before any segment request
\* of the session (no buffer API, metadata answered with an unsupported mime
\* type or failed, buffer creation threw); once the fallback has settled the
\* chunk state is discarded; a session in DirectMode stays in it and issues
\* no segment request.
C24_StrategyChosenOnce ==
    /\ [][(~DirectMode /\ DirectMode') =>
            \/ ~(useMediaSource /\ hasMSE)
            \/ metaPending /\ ~metaPending'
            \/ mediaSourceRef \in {"closed", "open"} /\ mediaSourceRef' = "null"]_vars
    /\ [][(~DirectMode /\ DirectMode' /\ session' = session) => firstReq = Null]_vars
    /\ []((DirectMode /\ ~renderPending) =>
            (SessionReset /\ ~sourceBufferRef /\ mediaSourceRef = "null"))
    /\ [][(DirectMode /\ session' = session) => ~IssuesSegment]_vars
    /\ [][(DirectMode /\ session' = session /\ mounted') => DirectMode']_vars

\* A step of the fetch pipeline that signals end of stream
SignalsEndOfStream == mediaSourceRef = "open" /\ mediaSourceRef' = "ended"

\* C25: end of stream is signalled only with the cursor at the size, the
\* session's final chunk appended; once the pipeline is idle with the cursor
\* at the size it has been signalled; and a segment request is issued from a
\* cursor at or beyond the size only in the step that commits a seek.
C25_EndOfStreamAtSize ==
    /\ [][SignalsEndOfStream =>
            /\ chunkPointerRef = fileSizeRef
            /\ chunkPointerRef' = chunkPointerRef
            /\ lastAppend = "own"]_vars
    /\ []((/\ sourceBufferRef /\ closureUseMediaSource
           /\ fileSizeRef > 0 /\ chunkPointerRef >= fileSizeRef
           /\ sbUpdating = "no" /\ updateendQueued = 0 /\ inflight = EmptyBag
           /\ ~sourceOpenQueued /\ ~isClearingBufferRef)
          => mediaSourceRef = "ended")
    /\ [][(IssuesSegment /\ session' = session /\ chunkPointerRef >= fileSizeRef) =>
            /\ isClearingBufferRef
            /\ pendingSeekByteRef # Null
            /\ chunkPointerRef' = pendingSeekByteRef]_vars

\* A step of the seeking event
SeekingStep == seeks' = seeks + 1

\* C26: a seeking event that finds the duration unknown (<= 0), the size
\* unknown (0) or the session in DirectMode changes neither the pending seek
\* byte, the clearing flag, the cursor nor the buffer, and issues no clear
\* and no request.
C26_SeekNeedsDurationAndSize ==
    [][(SeekingStep /\ (duration <= 0 \/ fileSizeRef = 0 \/ DirectMode)) =>
          UNCHANGED <<pendingSeekByteRef, isClearingBufferRef, chunkPointerRef,
                      hasStartedPlaybackRef, sourceBufferRef, mediaSourceRef,
                      sbUpdating, updateendQueued, inflight>>]_vars

\* The viewer has seeked in the only session of a page that streams, through
\* MediaSource, an asset whose duration is still unknown
C26_Witness ==
    /\ seeks > 0
    /\ session = 1
    /\ closureUseMediaSource
    /\ sourceBufferRef
    /\ fileSizeRef > 0
    /\ currentVideoId.duration = 0
    /\ duration = 0
    /\ pendingSeekByteRef = Null

\* The segment requests a step issues
Issued == IF IssuesSegment
          THEN {r \in BagToSet(inflight') : CopiesIn(r, inflight') > CopiesIn(r, inflight)}
          ELSE {}

\* C27: in a ChunkMode session whose size is known the cursor stays within
\* [0, size], and every segment request issued satisfies
\* 0 <= start <= end <= size - 1 and end - start + 1 <= STREAM_CHUNK_SIZE.
C27_CursorAndRequestsInRange ==
    /\ []((sourceBufferRef /\ fileSizeRef > 0) =>
            (0 <= chunkPointerRef /\ chunkPointerRef <= fileSizeRef))
    /\ [][\A r \in Issued :
            /\ 0 <= r.start /\ r.start <= r.end /\ r.end <= fileSizeRef' - 1
            /\ r.end - r.start + 1 <= STREAM_CHUNK_SIZE]_vars

\* The step that handles the last queued updateend of the session's buffer
\* with no update running: the completion callback of the buffer's last
\* operation
HandlesCompletion ==
    /\ sourceBufferRef /\ sourceBufferRef' /\ session' = session
    /\ closureUseMediaSource
    /\ sbUpdating = "no"
    /\ updateendQueued = 1 /\ updateendQueued' = 0

\* C28: every seek overwrites the pending seek byte with its own target; the
\* completion callback that finds a seek pending commits the target of the
\* most recent seek to the cursor and nulls the pending seek byte.
C28_LatestSeekCommitted ==
    /\ [][(SeekingStep /\ pendingSeekByteRef' # pendingSeekByteRef) =>
            pendingSeekByteRef' = seekTarget']_vars
    /\ [][(HandlesCompletion /\ pendingSeekByteRef # Null) =>
            /\ chunkPointerRef' = pendingSeekByteRef
            /\ pendingSeekByteRef' = Null]_vars

\* The session streams an asset of known size through its buffer
ChunkSession == sourceBufferRef /\ closureUseMediaSource /\ fileSizeRef > 0

\* The whole asset was requested and end of stream was signalled
AtEnd == chunkPointerRef = fileSizeRef /\ mediaSourceRef = "ended"

\* The pipeline is idle short of the size and shows no error
Stalled ==
    /\ ChunkSession
    /\ chunkPointerRef < fileSizeRef
    /\ inflight = EmptyBag
    /\ sbUpdating = "no"
    /\ updateendQueued = 0
    /\ videoError = "none"

\* C29: when no request fails, every buffer event is delivered and the
\* viewer seeks finitely often, a ChunkMode session of an asset of size > 0
\* eventually has its cursor at the size with end of stream signalled, and
\* is never idle short of the size without an error shown.
C29_PipelineReachesEnd == (ChunkSession ~> AtEnd) /\ []~Stalled

\* The viewer seeked MaxSeeks times in an asset of more than one chunk and of
\* known duration, the last seek was committed, and the session is at its end
C29_Witness ==
    /\ ChunkSession
    /\ AtEnd
    /\ fileSizeRef > STREAM_CHUNK_SIZE
    /\ currentVideoId.duration > 0
    /\ seeks = MaxSeeks
    /\ seekTarget = Null
    /\ pendingSeekByteRef = Null
    /\ videoError = "none"

\* C30: once a session of the page has fallen back (useMediaSource is false)
\* the page never uses MediaSource again: every later session starts in
\* DirectMode without a metadata request, no step issues a metadata or a
\* segment request, and no media source or buffer is created.
C30_FallbackIsSticky ==
    [][~useMediaSource =>
          /\ ~useMediaSource'
          /\ ~IssuesSegment
          /\ ~metaPending' /\ metaReqs' <= metaReqs
          /\ videoSrc' # "mse" /\ mediaSourceRef' = "null" /\ ~sourceBufferRef'
          /\ session' # session => (DirectMode' /\ metaReqs' = 0 /\ fullReqs' = 1)]_vars

\* On a page with MediaSource an earlier session fell back, and the session
\* started by a retry plays the direct stream of a video the buffer API
\* supports, without having requested its metadata
C30_Witness ==
    /\ hasMSE
    /\ ~useMediaSource /\ ~renderPending
    /\ session > 1
    /\ streamReloadKey > 0
    /\ currentVideoId.supported
    /\ DirectMode
    /\ elemHasMeta
    /\ metaReqs = 0
    /\ fullReqs = 1

====
